---- MODULE Spec2Model ----
(***************************************************************************)
(* One-layer quasi-geostrophic channel model, Simulations/QG_pert_channel.py *)
(*                                                                         *)
(* Three specifications over one set of variables:                         *)
(*   SpecSolve : one call of solve_qg, statement by statement.  Fields and *)
(*               fluxes are formal terms: flux_qg is a pure function of    *)
(*               the field, so the time stepper is checked for every such  *)
(*               function at once (FluxOf, EnergyOf, ... are free          *)
(*               constructors, q + c1*F1 + ... is a formal combination).   *)
(*               Every call of flux_qg is taken to return.                 *)
(*   SpecParms : the wavenumber vectors and the inversion kernel built by  *)
(*               Parms.__init__.                                           *)
(*   SpecFlux  : one call of flux_qg on a concrete field, in exact         *)
(*               arithmetic on grids whose transforms need only 1, -1, i   *)
(*               and -i.                                                   *)
(***************************************************************************)
EXTENDS Integers, Sequences, FiniteSets, TLC

VARIABLES
    pc,       \* position in the operation being run
    parms,    \* the Parms object handed to the operation
    q,        \* solve_qg: the field q (q0 before the Euler step)
    NL,       \* solve_qg: flux of the current AB3 step
    NLn,      \* solve_qg: retained flux, one step back
    NLnm,     \* solve_qg: retained flux, two steps back
    diag,     \* solve_qg: [energy, enstr, mass], the three arrays
    Nt,       \* solve_qg: number of steps
    ii,       \* solve_qg: loop index
    t,        \* solve_qg: simulated time
    ev,       \* history: the calls made so far, in order
    ret,      \* what the operation returned or raised
    args      \* the arguments the operation was called with

vars == <<pc, parms, q, NL, NLn, NLnm, diag, Nt, ii, t, ev, ret, args>>

(***************************************************************************)
(* Bounds of the model.                                                    *)
(***************************************************************************)
MaxTf  == 8      \* final times 1..MaxTf
MaxDt  == 2      \* time steps 1..MaxDt
MaxNpt == 3      \* plot intervals 1..MaxNpt

Unbound == <<"unbound">>      \* a Python name not yet assigned
None    == <<"none">>
Zero    == <<"0.0">>          \* an entry of np.zeros(Nt)

Max(a, b) == IF a >= b THEN a ELSE b

(***************************************************************************)
(* Formal fields.  Coefficients are counted in units of dt/12, so that     *)
(* dt*F is 12 units, 0.5*dt*(3*F1 - F0) is 18 units of F1 and -6 of F0.    *)
(***************************************************************************)
FluxOf(f)   == <<"flux", f>>        \* flux_qg(f, parms)[0]
EnergyOf(f) == <<"energy", f>>      \* flux_qg(f, parms)[1]
EnstrOf(f)  == <<"enstr", f>>       \* flux_qg(f, parms)[2]
MassOf(f)   == <<"mass", f>>        \* flux_qg(f, parms)[3]

\* f + (dt/12) * sum of c*F over the pairs <<c, F>> of terms
Axpy(f, terms) == <<"axpy", f, terms>>

EulerUpdate(f, F0)        == Axpy(f, << <<12, F0>> >>)
AB2Update(f, F1, F0)      == Axpy(f, << <<18, F1>>, <<-6, F0>> >>)
AB3Update(f, F2, F1, F0)  == Axpy(f, << <<23, F2>>, <<-16, F1>>, <<5, F0>> >>)

\* The exponential filter: extend, transform, damp, transform back, restrict.
ExpFilter(f) == <<"filt", f>>

\* int(parms.tf/parms.dt), both positive
NtOf(p) == p.tf \div p.dt

\* diag with entry i (0-based) of the three arrays set from the field f
SetDiag(d, i, f) ==
    [energy |-> [d.energy EXCEPT ![i + 1] = EnergyOf(f)],
     enstr  |-> [d.enstr  EXCEPT ![i + 1] = EnstrOf(f)],
     mass   |-> [d.mass   EXCEPT ![i + 1] = MassOf(f)]]

(***************************************************************************)
(* solve_qg(parms, q0)                                                     *)
(***************************************************************************)
InitSolve ==
    /\ pc = "setup"
    /\ parms \in [dt : 1..MaxDt, tf : 1..MaxTf, npt : 1..MaxNpt]
    /\ q = <<"q0">>
    /\ NL = Unbound /\ NLn = Unbound /\ NLnm = Unbound
    /\ diag = Unbound
    /\ Nt = Unbound
    /\ ii = Unbound
    /\ t = Unbound
    /\ ev = << >>
    /\ ret = None
    /\ args = <<parms, q>>

\* lines 207-210
Setup ==
    /\ pc = "setup"
    /\ Nt' = NtOf(parms)
    /\ diag' = [energy |-> [i \in 1..NtOf(parms) |-> Zero],
                enstr  |-> [i \in 1..NtOf(parms) |-> Zero],
                mass   |-> [i \in 1..NtOf(parms) |-> Zero]]
    /\ pc' = "euler"
    /\ UNCHANGED <<parms, q, NL, NLn, NLnm, ii, t, ev, ret, args>>

\* lines 213-215.  The tuple assignment binds NLnm, then stores energy[0]:
\* with Nt = 0 that store raises IndexError.
EulerStep ==
    /\ pc = "euler"
    /\ t' = 0
    /\ ii' = 0
    /\ NLnm' = FluxOf(q)
    /\ IF Nt < 1
       THEN /\ ev' = ev \o << <<"flux", q>> >>
            /\ pc' = "raised"
            /\ ret' = <<"IndexError", 0>>
            /\ UNCHANGED <<q, diag>>
       ELSE /\ diag' = SetDiag(diag, 0, q)
            /\ q' = EulerUpdate(q, FluxOf(q))
            /\ ev' = ev \o << <<"flux", q>>, <<"store", 0, t'>>,
                              <<"update", "euler", q'>> >>
            /\ pc' = "ab2"
            /\ UNCHANGED ret
    /\ UNCHANGED <<parms, NL, NLn, Nt, args>>

\* the AB2 step followed by the filter
AB2StepFiltered ==
    /\ pc = "ab2"
    /\ t' = parms.dt
    /\ ii' = 1
    /\ NLn' = FluxOf(q)
    /\ IF Nt < 2
       THEN /\ ev' = ev \o << <<"flux", q>> >>
            /\ pc' = "raised"
            /\ ret' = <<"IndexError", 1>>
            /\ UNCHANGED <<q, diag>>
       ELSE /\ diag' = SetDiag(diag, 1, q)
            /\ q' = ExpFilter(AB2Update(q, FluxOf(q), NLnm))
            /\ ev' = ev \o << <<"flux", q>>, <<"store", 1, t'>>,
                              <<"update", "ab2", AB2Update(q, FluxOf(q), NLnm)>>,
                              <<"filter", AB2Update(q, FluxOf(q), NLnm)>> >>
            /\ pc' = "for"
            /\ UNCHANGED ret
    /\ UNCHANGED <<parms, NL, NLnm, Nt, args>>

\* lines 218-222
AB2Step ==
    /\ pc = "ab2"
    /\ t' = parms.dt
    /\ ii' = 1
    /\ NLn' = FluxOf(q)
    /\ IF Nt < 2
       THEN /\ ev' = ev \o << <<"flux", q>> >>
            /\ pc' = "raised"
            /\ ret' = <<"IndexError", 1>>
            /\ UNCHANGED <<q, diag>>
       ELSE /\ diag' = SetDiag(diag, 1, q)
            /\ q' = AB2Update(q, FluxOf(q), NLnm)
            /\ ev' = ev \o << <<"flux", q>>, <<"store", 1, t'>>,
                              <<"update", "ab2", q'>> >>
            /\ pc' = "for"
            /\ UNCHANGED ret
    /\ UNCHANGED <<parms, NL, NLnm, Nt, args>>

\* line 223: for ii in range(3, Nt+1)
NextIndex == IF ii < 3 THEN 3 ELSE ii + 1

ForLoop ==
    /\ pc = "for"
    /\ IF NextIndex <= Nt
       THEN /\ ii' = NextIndex
            /\ pc' = "ab3"
       ELSE /\ pc' = "return"
            /\ UNCHANGED ii
    /\ UNCHANGED <<parms, q, NL, NLn, NLnm, diag, Nt, t, ev, ret, args>>

\* the AB3 step with the diagnostics taken from the updated field
AB3StepStoresUpdated ==
    /\ pc = "ab3"
    /\ t' = (ii - 1) * parms.dt
    /\ NL' = FluxOf(q)
    /\ q' = AB3Update(q, FluxOf(q), NLn, NLnm)
    /\ diag' = SetDiag(diag, ii - 1, q')
    /\ ev' = ev \o << <<"flux", q>>, <<"store", ii - 1, t'>>,
                       <<"update", "ab3", q'>> >>
    /\ pc' = "filter"
    /\ UNCHANGED <<parms, NLn, NLnm, Nt, ii, ret, args>>

\* lines 226-228
AB3Step ==
    /\ pc = "ab3"
    /\ t' = (ii - 1) * parms.dt
    /\ NL' = FluxOf(q)
    /\ diag' = SetDiag(diag, ii - 1, q)
    /\ q' = AB3Update(q, FluxOf(q), NLn, NLnm)
    /\ ev' = ev \o << <<"flux", q>>, <<"store", ii - 1, t'>>,
                       <<"update", "ab3", q'>> >>
    /\ pc' = "filter"
    /\ UNCHANGED <<parms, NLn, NLnm, Nt, ii, ret, args>>

\* lines 231-233
FilterStep ==
    /\ pc = "filter"
    /\ q' = ExpFilter(q)
    /\ ev' = ev \o << <<"filter", q>> >>
    /\ pc' = "reset"
    /\ UNCHANGED <<parms, NL, NLn, NLnm, diag, Nt, ii, t, ret, args>>

\* the rotation with its two assignments in the other order
ResetFluxesWrongOrder ==
    /\ pc = "reset"
    /\ NLn' = NL
    /\ NLnm' = NL
    /\ pc' = "plot"
    /\ UNCHANGED <<parms, q, NL, diag, Nt, ii, t, ev, ret, args>>

\* lines 236-237
ResetFluxes ==
    /\ pc = "reset"
    /\ NLnm' = NLn
    /\ NLn' = NL
    /\ pc' = "plot"
    /\ UNCHANGED <<parms, q, NL, diag, Nt, ii, t, ev, ret, args>>

\* lines 239-252: the rendering of q under the title made from t
PlotStep ==
    /\ pc = "plot"
    /\ IF ii % parms.npt = 0
       THEN ev' = ev \o << <<"plot", ii, t, q>> >>
       ELSE UNCHANGED ev
    /\ pc' = "for"
    /\ UNCHANGED <<parms, q, NL, NLn, NLnm, diag, Nt, ii, t, ret, args>>

\* line 254
Return ==
    /\ pc = "return"
    /\ ret' = <<q, diag.energy, diag.enstr, diag.mass>>
    /\ pc' = "done"
    /\ UNCHANGED <<parms, q, NL, NLn, NLnm, diag, Nt, ii, t, ev, args>>

NextSolve ==
    \/ Setup
    \/ EulerStep
    \/ AB2Step
    \/ ForLoop
    \/ AB3Step
    \/ FilterStep
    \/ ResetFluxes
    \/ PlotStep
    \/ Return

SpecSolve == InitSolve /\ [][NextSolve]_vars

(***************************************************************************)
(* Parms.__init__                                                          *)
(*                                                                         *)
(* Lengths are measured in the unit that makes pi/(Lx*Ly) = 1, so that the *)
(* wavenumbers 2*pi/Lx*m = 2*Ly*m and pi/Ly*n = Lx*n are integers; F, U    *)
(* and beta are integers in the same unit.  A real number is a pair        *)
(* <<num, den>>; <<-1, 0>> is what numpy makes of -1./0., that is -inf.    *)
(***************************************************************************)
\* range(a, b) as a sequence
Range(a, b) == [i \in 1..Max(0, b - a) |-> a + i - 1]

\* int(N/2) under true division, N >= 0
IntHalf(N) == N \div 2

\* np.hstack([range(0,int(Nx/2)+1), range(-int(Nx/2)+1,0)]), line 169
kxModes(Nx) == Range(0, IntHalf(Nx) + 1) \o Range(-IntHalf(Nx) + 1, 0)

\* np.hstack([range(0,Ny+1), range(-Ny+1,0)]), line 170
kyModes(Ny) == Range(0, Ny + 1) \o Range(-Ny + 1, 0)

Scaled(c, seq) == [i \in 1..Len(seq) |-> c * seq[i]]

\* np.meshgrid(kx, ky): two arrays of shape (len(ky), len(kx))
MeshX(kx, ky) == [j \in 1..Len(ky) |-> [i \in 1..Len(kx) |-> kx[i]]]
MeshY(kx, ky) == [j \in 1..Len(ky) |-> [i \in 1..Len(kx) |-> ky[j]]]

\* the shape of a two-dimensional array with at least one row
Shape(A) == <<Len(A), Len(A[1])>>

\* -1./(kxx**2 + kyy**2 + F), elementwise, line 172
InverseLaplacian(kxx, kyy, F) ==
    [j \in 1..Len(kxx) |-> [i \in 1..Len(kxx[j]) |->
        <<-1, kxx[j][i] * kxx[j][i] + kyy[j][i] * kyy[j][i] + F>>]]

\* the kernel with its zero-wavenumber entry left as computed
K2FiMissingZeroMode(kxx, kyy, F) == InverseLaplacian(kxx, kyy, F)

\* lines 172-176: the kernel with its zero-wavenumber entry replaced
K2FiOf(kxx, kyy, F) ==
    [InverseLaplacian(kxx, kyy, F) EXCEPT
        ![1][1] = IF F = 0 THEN <<0, 1>> ELSE <<-1, F>>]

\* lines 136-193.  sfilt[j][i] = exp(-alpha*K^beta) is kept as the K^2 it
\* is computed from.
ParmsInit(a) ==
    LET kx  == Scaled(2 * a.Ly, kxModes(a.Nx))
        ky  == Scaled(a.Lx, kyModes(a.Ny))
        kxx == MeshX(kx, ky)
        kyy == MeshY(kx, ky)
    IN  [Nx |-> a.Nx, Ny |-> a.Ny, Lx |-> a.Lx, Ly |-> a.Ly,
         F |-> a.F, U |-> a.U, Q_y |-> a.F * a.U + a.beta,
         kx |-> kx, ky |-> ky,
         ikx |-> kxx, iky |-> kyy,
         K2Fi |-> K2FiOf(kxx, kyy, a.F),
         sfilt |-> [j \in 1..Len(kxx) |-> [i \in 1..Len(kxx[j]) |->
                      kxx[j][i] * kxx[j][i] + kyy[j][i] * kyy[j][i]]]]

MaxN == 6       \* SpecParms: resolutions 1..MaxN
MaxL == 2       \* SpecParms: domain sizes 1..MaxL
MaxF == 2       \* SpecParms: Froude numbers 0..MaxF

InitParms ==
    /\ pc = "init"
    /\ args \in [Nx : 1..MaxN, Ny : 1..MaxN, Lx : 1..MaxL, Ly : 1..MaxL,
                 F : 0..MaxF, U : {0}, beta : {1}]
    /\ parms = Unbound
    /\ q = Unbound /\ NL = Unbound /\ NLn = Unbound /\ NLnm = Unbound
    /\ diag = Unbound /\ Nt = Unbound /\ ii = Unbound /\ t = Unbound
    /\ ev = << >>
    /\ ret = None

Construct ==
    /\ pc = "init"
    /\ parms' = ParmsInit(args)
    /\ pc' = "built"
    /\ UNCHANGED <<q, NL, NLn, NLnm, diag, Nt, ii, t, ev, ret, args>>

NextParms == Construct

SpecParms == InitParms /\ [][NextParms]_vars

(***************************************************************************)
(* The mirror-doubled field of lines 74 and 231, and the restriction of    *)
(* lines 90-94 and 233.  A field is a sequence of Ny rows of Nx numbers.   *)
(***************************************************************************)
flipud(A) == [j \in 1..Len(A) |-> A[Len(A) + 1 - j]]
Negated(A) == [j \in 1..Len(A) |-> [i \in 1..Len(A[j]) |-> -A[j][i]]]
vstack(A, B) == A \o B

\* np.vstack((q,-np.flipud(q)))
Extend(f) == vstack(f, Negated(flipud(f)))

\* A[Ny:,:], the mirrored half
RestrictBottomHalf(A, Ny) == SubSeq(A, Len(A) - Ny + 1, Len(A))

\* A[0:Ny,:]
Restrict(A, Ny) == SubSeq(A, 1, Ny)

(***************************************************************************)
(* Exact arithmetic for flux_qg.  A complex number is a pair <<re, im>> of *)
(* integers.  On arrays whose sides are 1, 2 or 4 long the transform uses  *)
(* only the fourth roots of unity.  ifftn divides by the number of points; *)
(* the model carries numerators and states the denominators beside them.   *)
(***************************************************************************)
CMul(a, b) == <<a[1] * b[1] - a[2] * b[2], a[1] * b[2] + a[2] * b[1]>>

\* exp(sign*2*pi*i*e/n) for n in {1, 2, 4}
RootOfUnity(e, n, sign) ==
    LET k == ((4 \div n) * e) % 4
    IN  IF k = 0 THEN <<1, 0>>
        ELSE IF k = 1 THEN <<0, sign>>
        ELSE IF k = 2 THEN <<-1, 0>>
        ELSE <<0, -sign>>

RECURSIVE CSum(_, _)
CSum(seq, n) ==
    IF n = 0 THEN <<0, 0>>
    ELSE LET r == CSum(seq, n - 1)
         IN  <<r[1] + seq[n][1], r[2] + seq[n][2]>>

RECURSIVE ISum(_, _)
ISum(seq, n) == IF n = 0 THEN 0 ELSE ISum(seq, n - 1) + seq[n]

\* the entries of a two-dimensional array, row after row
Flat(A) ==
    LET N == Len(A[1])
    IN  [k \in 1..(Len(A) * N) |-> A[((k - 1) \div N) + 1][((k - 1) % N) + 1]]

\* sum over y, x of A[y][x] * exp(sign*2*pi*i*(a*y/M + b*x/N)), along the
\* rows first and then down the columns
Transform(A, sign) ==
    LET M == Len(A)
        N == Len(A[1])
        rows == [y \in 1..M |-> [b \in 1..N |->
                    CSum([x \in 1..N |->
                            CMul(A[y][x], RootOfUnity((b - 1) * (x - 1), N, sign))],
                         N)] \o << >>] \o << >>
    IN  [a \in 1..M |-> [b \in 1..N |->
            CSum([y \in 1..M |->
                    CMul(rows[y][b], RootOfUnity((a - 1) * (y - 1), M, sign))],
                 M)] \o << >>] \o << >>

\* scipy.fftpack.fftn
fftn(A) == Transform(A, -1)

\* (M*N) * ifftn(A).real
ifftnReal(A) ==
    LET T == Transform(A, 1)
    IN  [a \in 1..Len(A) |-> [b \in 1..Len(A[1]) |-> T[a][b][1]]]

RECURSIVE GCD(_, _)
GCD(a, b) == IF b = 0 THEN a ELSE GCD(b, a % b)

RECURSIVE LCMOf(_, _)
LCMOf(seq, n) ==
    IF n = 0 THEN 1
    ELSE LET r == LCMOf(seq, n - 1)
         IN  (r \div GCD(r, seq[n])) * seq[n]

NaN == <<"nan">>

(***************************************************************************)
(* flux_qg(q, parms), lines 71-104.  With D the common denominator of the  *)
(* kernel and P = 2*Ny*Nx the number of points of the extended array:      *)
(*    q_x = QX/P, q_y = QY/P, psi = PSI/(P*D), u = UU/(P*D), v = VV/(P*D). *)
(* Returned: the flux as numerators over P*P*D, the energy over            *)
(* 2*(P*D)^2*Ny*Nx, the enstrophy over Ny*Nx, the mass over P*D*Ny*Nx.     *)
(***************************************************************************)
\* the flux without the products of two perturbation fields
FluxFormulaLinearised(UU, QX, QY, VV, U, Q_y, P, D) ==
    -(P * D * U * QX + P * Q_y * VV)

\* the flux with Q_y added to q_y*v instead of to q_y
FluxFormulaBackgroundAdded(UU, QX, QY, VV, U, Q_y, P, D) ==
    -((UU + P * D * U) * QX + QY * VV + P * P * D * Q_y)

\* line 97, times P*P*D
FluxFormula(UU, QX, QY, VV, U, Q_y, P, D) ==
    -((UU + P * D * U) * QX + (QY + P * Q_y) * VV)

\* line 101, times Ny*Nx
Enstrophy(f) ==
    LET F == Flat(f)
    IN  ISum([k \in 1..Len(F) |-> F[k] * F[k]], Len(F))

flux_qg(f, p) ==
    LET qe     == Extend(f)
        M      == Len(qe)
        N      == Len(qe[1])
        P      == M * N
        qe_hat == fftn([j \in 1..M |-> [i \in 1..N |-> <<qe[j][i], 0>>]])
        dens   == LET K == Flat(p.K2Fi) IN [k \in 1..Len(K) |-> K[k][2]]
        D      == LCMOf(dens, Len(dens))
        \* K2Fi times D
        KD     == [j \in 1..M |-> [i \in 1..N |->
                     p.K2Fi[j][i][1] * (D \div p.K2Fi[j][i][2])]]
        psie_hat == [j \in 1..M |-> [i \in 1..N |->
                     <<KD[j][i] * qe_hat[j][i][1], KD[j][i] * qe_hat[j][i][2]>>]
                        \o << >>] \o << >>
        QXe  == ifftnReal([j \in 1..M |-> [i \in 1..N |->
                     CMul(<<0, p.ikx[j][i]>>, qe_hat[j][i])]])
        QYe  == ifftnReal([j \in 1..M |-> [i \in 1..N |->
                     CMul(<<0, p.iky[j][i]>>, qe_hat[j][i])]])
        PSIe == ifftnReal(psie_hat)
        UUe  == ifftnReal([j \in 1..M |-> [i \in 1..N |->
                     CMul(<<0, -p.iky[j][i]>>, psie_hat[j][i])]])
        VVe  == ifftnReal([j \in 1..M |-> [i \in 1..N |->
                     CMul(<<0, p.ikx[j][i]>>, psie_hat[j][i])]])
        QX   == Restrict(QXe, p.Ny)
        QY   == Restrict(QYe, p.Ny)
        UU   == Restrict(UUe, p.Ny)
        VV   == Restrict(VVe, p.Ny)
        PSI  == Restrict(PSIe, p.Ny)
        cells == p.Ny * N
        flux == [j \in 1..p.Ny |-> [i \in 1..N |->
                   <<FluxFormula(UU[j][i], QX[j][i], QY[j][i], VV[j][i],
                                 p.U, p.Q_y, P, D),
                     P * P * D>>]]
        \* not returned: -u*q_x - q_y*v, line 97 without U and Q_y
        advect == [j \in 1..p.Ny |-> [i \in 1..N |->
                   <<-(UU[j][i] * QX[j][i] + QY[j][i] * VV[j][i]), P * P * D>>]]
        kinetic == LET u == Flat(UU)
                       v == Flat(VV)
                   IN  ISum([k \in 1..cells |-> u[k] * u[k] + v[k] * v[k]], cells)
        potential == LET s == Flat(PSI)
                     IN  ISum([k \in 1..cells |-> p.F * s[k] * s[k]], cells)
        energy == <<kinetic + 2 * potential, 2 * P * D * P * D * cells>>
        enstr  == <<Enstrophy(f), Len(f) * Len(f[1])>>
        mass   == <<ISum(Flat(PSI), cells), P * D * cells>>
    IN  IF Shape(p.ikx) # Shape(qe)
        THEN [exc |-> "ValueError"]
        ELSE IF \E k \in 1..Len(dens) : dens[k] = 0
        THEN [exc |-> "none", flux |-> NaN, energy |-> NaN, enstr |-> enstr,
              mass |-> NaN, advect |-> NaN]
        ELSE [exc |-> "none", flux |-> flux, energy |-> energy, enstr |-> enstr,
              mass |-> mass, advect |-> advect]

\* c*f for a field f
ScaledField(c, f) == [j \in 1..Len(f) |-> [i \in 1..Len(f[j]) |-> c * f[j][i]]]

MaxAmp == 1       \* SpecFlux: amplitudes 0..MaxAmp of the sources of a field
MaxC   == 2       \* SpecFlux: scaling constants -1..MaxC

\* the field with amplitude a at cell <<j1, i1>> plus b at cell <<j2, i2>>
TwoSources(Ny, Nx, c1, a, c2, b) ==
    [j \in 1..Ny |-> [i \in 1..Nx |->
        (IF <<j, i>> = c1 THEN a ELSE 0) + (IF <<j, i>> = c2 THEN b ELSE 0)]]

FluxFields(Ny, Nx) ==
    {TwoSources(Ny, Nx, c1, a, c2, b) :
        c1 \in (1..Ny) \X (1..Nx), c2 \in (1..Ny) \X (1..Nx),
        a \in 0..MaxAmp, b \in 0..MaxAmp}

\* Grids of SpecFlux: the sides of the extended array are 2 or 4 long and
\* 1, 2 or 4 wide (exact transforms), or 3 wide.
FluxNx == {1, 2, 3, 4}
FluxNy == {1, 2}
FluxLx == {2}
FluxLy == {1}
FluxF  == {0, 4}
FluxU  == {0, 1}
FluxBeta == {0, 1}

InitFlux ==
    /\ pc = "call"
    /\ \E a \in [Nx : FluxNx, Ny : FluxNy, Lx : FluxLx, Ly : FluxLy,
                 F : FluxF, U : FluxU, beta : FluxBeta] :
          /\ parms = ParmsInit(a)
          /\ \E f \in FluxFields(a.Ny, a.Nx) : \E c \in (-1)..MaxC :
                args = [q0 |-> f, c |-> c]
    /\ q = args.q0
    /\ NL = Unbound /\ NLn = Unbound /\ NLnm = Unbound
    /\ diag = Unbound /\ Nt = Unbound /\ ii = Unbound /\ t = Unbound
    /\ ev = << >>
    /\ ret = None

\* flux_qg on the initial field (line 214)
FluxCall ==
    /\ pc = "call"
    /\ ret' = flux_qg(q, parms)
    /\ ev' = Append(ev, [arg |-> q, res |-> ret'])
    /\ pc' = "returned"
    /\ UNCHANGED <<parms, q, NL, NLn, NLnm, diag, Nt, ii, t, args>>

\* flux_qg on the initial field scaled by c
FluxCallScaled ==
    /\ pc = "returned"
    /\ q' = ScaledField(args.c, args.q0)
    /\ ret' = flux_qg(q', parms)
    /\ ev' = Append(ev, [arg |-> q', res |-> ret'])
    /\ pc' = "compared"
    /\ UNCHANGED <<parms, NL, NLn, NLnm, diag, Nt, ii, t, args>>

\* the extension of line 74 alone
ExtendCall ==
    /\ pc = "call"
    /\ ret' = Extend(q)
    /\ pc' = "extended"
    /\ UNCHANGED <<parms, q, NL, NLn, NLnm, diag, Nt, ii, t, ev, args>>

\* the restriction of lines 90-94 applied to the extended field
RestrictCall ==
    /\ pc = "extended"
    /\ ret' = Restrict(ret, parms.Ny)
    /\ pc' = "restricted"
    /\ UNCHANGED <<parms, q, NL, NLn, NLnm, diag, Nt, ii, t, ev, args>>

NextFlux ==
    \/ FluxCall
    \/ FluxCallScaled
    \/ ExtendCall
    \/ RestrictCall

SpecFlux == InitFlux /\ [][NextFlux]_vars

(***************************************************************************)
(* The scheme as the specification states it: q_0 is the initial field,    *)
(* q_1 the Euler step, q_2 the AB2 step, and q_{n+1} the filtered AB3 step *)
(* for n >= 2, with F_k the flux of q_k.                                   *)
(***************************************************************************)
RECURSIVE RefQ(_)
RefF(k) == <<"flux", RefQ(k)>>

RefAB3(n) ==
    <<"axpy", RefQ(n), << <<23, RefF(n)>>, <<-16, RefF(n - 1)>>, <<5, RefF(n - 2)>> >> >>

RefQ(k) ==
    IF k = 0 THEN <<"q0">>
    ELSE IF k = 1 THEN <<"axpy", RefQ(0), << <<12, RefF(0)>> >> >>
    ELSE IF k = 2 THEN <<"axpy", RefQ(1), << <<18, RefF(1)>>, <<-6, RefF(0)>> >> >>
    ELSE <<"filt", RefAB3(k - 1)>>

\* the events of a kind, as the set of their positions in ev
Events(kind) == {i \in 1..Len(ev) : ev[i][1] = kind}

Finished == pc \in {"done", "raised"}

\* C1: for every configuration with dt > 0 and tf > 0 solve_qg returns the
\* field and three sequences of length Nt = floor(tf/dt), after exactly Nt
\* flux evaluations and Nt updates, every index 0..Nt-1 stored exactly once
\* and no index outside 0..Nt-1 accessed.
C1_ReturnsAfterNtSteps ==
    /\ pc # "raised"
    /\ pc = "done" =>
        /\ Len(ret[2]) = Nt /\ Len(ret[3]) = Nt /\ Len(ret[4]) = Nt
        /\ Cardinality(Events("flux")) = Nt
        /\ Cardinality(Events("update")) = Nt
        /\ \A k \in 0..(Nt - 1) :
              Cardinality({i \in Events("store") : ev[i][2] = k}) = 1
        /\ \A i \in Events("store") : ev[i][2] \in 0..(Nt - 1)

\* C2: step 0 is the Euler update, step 1 the AB2 update, and at the start
\* of every step n >= 2 the field is q_n and the retained buffers NLn and
\* NLnm hold F_{n-1} and F_{n-2}, so that the update of step n is the AB3
\* formula on F_n, F_{n-1}, F_{n-2} (before filtering).
C2_AdamsBashforth ==
    /\ pc = "ab2" => q = RefQ(1)
    /\ (pc = "for" /\ ii = 1) => q = RefQ(2)
    /\ pc = "ab3" =>
        /\ q = RefQ(ii - 1)
        /\ NLn = RefF(ii - 2)
        /\ NLnm = RefF(ii - 3)
    /\ pc = "filter" =>
        /\ q = RefAB3(ii - 1)
        /\ NL = RefF(ii - 1)

C2_Witness == pc = "filter" /\ ii >= 6

\* C3: the filter is applied exactly once after every AB3 update, to the
\* field that update produced and before that field is evaluated or
\* returned, never after the Euler or the AB2 update; a finished run has
\* applied it max(0, Nt-2) times.
C3_FilterAfterAB3Only ==
    /\ \A i \in Events("update") :
          IF ev[i][2] = "ab3"
          THEN IF i = Len(ev)
               THEN pc = "filter"
               ELSE ev[i + 1] = <<"filter", ev[i][3]>>
          ELSE i < Len(ev) => ev[i + 1][1] # "filter"
    /\ \A i \in Events("filter") :
          /\ i > 1 /\ ev[i - 1][1] = "update" /\ ev[i - 1][2] = "ab3"
          /\ i < Len(ev) => ev[i + 1][1] \in {"flux", "plot"}
          /\ \A j \in Events("flux") :
                (j > i /\ \A m \in (i + 1)..(j - 1) : ev[m][1] # "flux")
                    => ev[j][2] = <<"filt", ev[i][2]>>
          /\ (pc = "done" /\ \A m \in (i + 1)..Len(ev) : ev[m][1] # "filter")
                    => ret[1] = <<"filt", ev[i][2]>>
    /\ Finished => Cardinality(Events("filter")) = Max(0, Nt - 2)

C3_Witness == pc = "done" /\ Nt >= 4 /\ Cardinality(Events("filter")) = Nt - 2

\* C4: whatever is stored at index i of energy, enstr and mass is the
\* diagnostic of q_i, the field after exactly i updates and before the
\* update to q_{i+1}, stored at simulated time i*dt; a returned run has
\* stored every index.
C4_DiagnosticsOfPreUpdateField ==
    /\ \A i \in Events("store") :
          LET k == ev[i][2] IN
          /\ ev[i - 1] = <<"flux", RefQ(k)>>
          /\ ev[i + 1][1] = "update"
          /\ Cardinality({j \in Events("update") : j < i}) = k
          /\ ev[i][3] = k * parms.dt
          /\ diag.energy[k + 1] = <<"energy", RefQ(k)>>
          /\ diag.enstr[k + 1] = <<"enstr", RefQ(k)>>
          /\ diag.mass[k + 1] = <<"mass", RefQ(k)>>
    /\ pc = "done" =>
          \A k \in 0..(Nt - 1) :
              /\ ret[2][k + 1] = <<"energy", RefQ(k)>>
              /\ ret[3][k + 1] = <<"enstr", RefQ(k)>>
              /\ ret[4][k + 1] = <<"mass", RefQ(k)>>

C4_Witness == pc = "done" /\ Nt >= 4

\* C5: the rendering hook is invoked on every step whose 1-based count is
\* a multiple of npt, for all counts in 1..Nt, and on no other step, each
\* time with the current field and the simulated time of that same field.
C5_PlotEveryNptStep ==
    pc = "done" =>
        /\ {ev[i][2] : i \in Events("plot")} = {k \in 1..Nt : k % parms.npt = 0}
        /\ \A i \in Events("plot") :
              \E k \in 0..Nt : ev[i][4] = RefQ(k) /\ ev[i][3] = k * parms.dt

\* C6: for every Nx >= 1 and Ny >= 1 the x-wavenumber vector has length Nx
\* and the y-wavenumber vector length 2*Ny, so ikx, iky, K2Fi and sfilt
\* have the shape (2*Ny, Nx) of the extended field of a (Ny, Nx) field.
C6_SpectralShapes ==
    pc = "built" =>
        /\ Len(parms.kx) = parms.Nx
        /\ Len(parms.ky) = 2 * parms.Ny
        /\ Shape(parms.ikx) = <<2 * parms.Ny, parms.Nx>>
        /\ Shape(parms.iky) = <<2 * parms.Ny, parms.Nx>>
        /\ Shape(parms.K2Fi) = <<2 * parms.Ny, parms.Nx>>
        /\ Shape(parms.sfilt) = <<2 * parms.Ny, parms.Nx>>
        /\ Shape(parms.ikx) =
              Shape(Extend([j \in 1..parms.Ny |-> [i \in 1..parms.Nx |-> 0]]))

\* C10: the zero-wavenumber entry of K2Fi is 0 when F = 0 and -1/F
\* otherwise, every other entry is -1/(kx^2 + ky^2 + F), and for F >= 0 no
\* other entry has a zero denominator, so no entry of the kernel is the
\* result of a division by zero.
C10_KernelZeroMode ==
    pc = "built" =>
        /\ parms.K2Fi[1][1] = IF parms.F = 0 THEN <<0, 1>> ELSE <<-1, parms.F>>
        /\ \A j \in 1..Len(parms.ky) : \A i \in 1..Len(parms.kx) :
              /\ <<j, i>> # <<1, 1>> =>
                    /\ parms.K2Fi[j][i] =
                         <<-1, parms.kx[i] * parms.kx[i]
                               + parms.ky[j] * parms.ky[j] + parms.F>>
                    /\ parms.kx[i] * parms.kx[i] + parms.ky[j] * parms.ky[j]
                         + parms.F > 0
              /\ parms.K2Fi[j][i][2] # 0

C10_Witness ==
    /\ pc = "built"
    /\ parms.F = 0
    /\ parms.Nx >= 4 /\ parms.Ny >= 2
    /\ parms.K2Fi[1][1] = <<0, 1>>

IsZeroField(f) == \A j \in 1..Len(f) : \A i \in 1..Len(f[j]) : f[j][i] = 0

\* C7: extending a (Ny, Nx) field (the field stacked on its negated,
\* vertically flipped copy, shape (2*Ny, Nx)) and restricting the result to
\* rows 0..Ny-1 returns the field.
C7_RestrictExtend ==
    /\ pc = "extended" =>
          /\ Len(ret) = 2 * Len(q)
          /\ \A j \in 1..Len(q) :
                /\ ret[j] = q[j]
                /\ Len(ret[Len(q) + j]) = Len(q[1])
                /\ \A i \in 1..Len(q[1]) :
                      ret[Len(q) + j][i] = -q[Len(q) + 1 - j][i]
    /\ pc = "restricted" => ret = q

C7_Witness ==
    /\ pc = "restricted"
    /\ Len(q) = 2 /\ Len(q[1]) = 3
    /\ q[1] # q[2] /\ ~IsZeroField(q)
    /\ ret = q

\* C8 as stated: flux_qg on c*q0 returns c times the flux field of q0 and
\* c^2 times its enstrophy.
C8_FluxScalesLinearly ==
    (pc = "compared" /\ ev[1].res.exc = "none" /\ ev[2].res.exc = "none") =>
        /\ ev[2].res.enstr[1] = args.c * args.c * ev[1].res.enstr[1]
        /\ ev[2].res.enstr[2] = ev[1].res.enstr[2]
        /\ \A j \in 1..Len(args.q0) : \A i \in 1..Len(args.q0[1]) :
              /\ ev[2].res.flux[j][i][1] = args.c * ev[1].res.flux[j][i][1]
              /\ ev[2].res.flux[j][i][2] = ev[1].res.flux[j][i][2]

\* C8 amended: whenever both calls return, the enstrophy of c*q0 is c^2
\* times that of q0, and the flux field of c*q0 is c times the flux field
\* of q0 plus (c^2 - c) times the self-advection -u*q_x - q_y*v of q0.
C8_FluxScalesQuadratically ==
    (pc = "compared" /\ ev[1].res.exc = "none" /\ ev[2].res.exc = "none") =>
        /\ ev[1].arg = args.q0
        /\ ev[2].arg = ScaledField(args.c, args.q0)
        /\ ev[2].res.enstr[1] = args.c * args.c * ev[1].res.enstr[1]
        /\ ev[2].res.enstr[2] = ev[1].res.enstr[2]
        /\ \A j \in 1..Len(args.q0) : \A i \in 1..Len(args.q0[1]) :
              /\ ev[2].res.flux[j][i][1] =
                    args.c * ev[1].res.flux[j][i][1]
                    + (args.c * args.c - args.c) * ev[1].res.advect[j][i][1]
              /\ ev[2].res.flux[j][i][2] = ev[1].res.flux[j][i][2]
              /\ ev[1].res.advect[j][i][2] = ev[1].res.flux[j][i][2]

C8_Witness ==
    /\ pc = "compared"
    /\ ev[1].res.exc = "none" /\ ev[2].res.exc = "none"
    /\ args.c \notin {0, 1}
    /\ parms.U # 0 /\ parms.Q_y # 0
    /\ \E j \in 1..Len(args.q0) : \E i \in 1..Len(args.q0[1]) :
          /\ ev[1].res.advect[j][i][1] # 0
          /\ ev[1].res.flux[j][i][1] # ev[1].res.advect[j][i][1]

\* C9: on an all-zero field the flux field, the energy, the enstrophy and
\* the mass flux_qg returns are all exactly zero, whatever U, Q_y, F and
\* the grid.
C9_ZeroFieldZeroFlux ==
    \A k \in 1..Len(ev) :
        (IsZeroField(ev[k].arg) /\ ev[k].res.exc = "none") =>
            /\ \A j \in 1..Len(ev[k].arg) : \A i \in 1..Len(ev[k].arg[1]) :
                  ev[k].res.flux[j][i][1] = 0
            /\ ev[k].res.energy[1] = 0
            /\ ev[k].res.enstr[1] = 0
            /\ ev[k].res.mass[1] = 0

C9_Witness ==
    /\ pc = "returned"
    /\ IsZeroField(q)
    /\ ret.exc = "none"
    /\ parms.Nx = 4 /\ parms.Ny = 2
    /\ parms.U # 0 /\ parms.Q_y # 0 /\ parms.F # 0
    /\ ret.energy[1] = 0

====
